---- MODULE Spec2Model ----
(***************************************************************************)
(* Model of the question-answering backend of predictGrowth-bot:           *)
(*   backend/src/llmService.ts  - getAnswerFromLLM, the two provider       *)
(*                                adapters and parseAndValidateAIResponse  *)
(*   unnamed/part_001 (server)  - the handlers of /api/ask and             *)
(*                                /api/history, the error handler          *)
(*   unnamed/part_002 (db)      - connectToDatabase, ensureDbConnection    *)
(*   unnamed/part_000 (model)   - the schema of the QAHistory collection   *)
(* Line numbers without a file name are lines of llmService.ts.            *)
(*                                                                         *)
(* A JavaScript string is a sequence of chunks, each chunk a TLA+ string.  *)
(* Text that the program inspects character by character (provider         *)
(* completions, JSON member names and string values) is a sequence of      *)
(* one-character chunks; the fixed wording of a message the program only   *)
(* concatenates is kept as longer chunks.                                  *)
(*                                                                         *)
(* A JavaScript value (the result of JSON.parse, and every object the      *)
(* service returns) is a record [k, s, a, keys, vals]:                     *)
(*   k = "str"  s = the characters        k = "num"   s = the lexeme       *)
(*   k = "bool" s = true / false          k = "null", k = "undefined"      *)
(*   k = "arr"  a = the elements                                           *)
(*   k = "obj"  keys = member names in insertion order, vals = values      *)
(***************************************************************************)
EXTENDS Integers, Sequences, FiniteSets, TLC

----------------------------------------------------------------------------
(* Strings *)

WS == {" ", "\n", "\t", "\r"}

Digits == {"0", "1", "2", "3", "4", "5", "6", "7", "8", "9"}

RECURSIVE DropLeadingWS(_)
DropLeadingWS(s) ==
    IF s # <<>> /\ Head(s) \in WS THEN DropLeadingWS(Tail(s)) ELSE s

RECURSIVE DropTrailingWS(_)
DropTrailingWS(s) ==
    IF s # <<>> /\ s[Len(s)] \in WS
    THEN DropTrailingWS(SubSeq(s, 1, Len(s) - 1))
    ELSE s

\* String.prototype.trim
Trim(s) == DropTrailingWS(DropLeadingWS(s))

\* String.prototype.startsWith / endsWith
StartsWith(s, p) == Len(s) >= Len(p) /\ SubSeq(s, 1, Len(p)) = p

EndsWith(s, p) ==
    Len(s) >= Len(p) /\ SubSeq(s, Len(s) - Len(p) + 1, Len(s)) = p

\* s from position i on (1-based), "" when i is past the end
From(s, i) == SubSeq(s, i, Len(s))

\* the first position >= i where p occurs in s, 0 when there is none
RECURSIVE IndexOf(_, _, _)
IndexOf(s, p, i) ==
    IF i + Len(p) - 1 > Len(s) THEN 0
    ELSE IF SubSeq(s, i, i + Len(p) - 1) = p THEN i
    ELSE IndexOf(s, p, i + 1)

\* the grave accent U+0060, which a TLA+ string cannot hold: one chunk that
\* stands for that one character
Backtick == "U+0060"

\* the three grave accents of a Markdown code fence
Fence == <<Backtick, Backtick, Backtick>>

JsonLabel == <<"j", "s", "o", "n">>

----------------------------------------------------------------------------
(* The fence extraction at the head of parseAndValidateAIResponse *)

\* jsonStringToParse.match(/^FENCE(?:json)?\s*([\s\S]*?)\s*FENCE$/), FENCE
\* standing for the three grave accents.
\* The pattern is anchored at both ends, so it matches exactly when the text
\* opens with a fence and closes with another one that does not overlap it.
\* (?:json)? is greedy: the label is consumed whenever it is there (the match
\* then always completes, because the closing fence lies behind the label).
\* Between the opening and the closing fence the first \s* takes all leading
\* white space and the lazy group stops at the first point from which only
\* white space remains, so group 1 is the middle without its leading and
\* trailing white space.
MarkdownMatch(t) ==
    IF StartsWith(t, Fence) /\ EndsWith(t, Fence) /\ Len(t) >= 6
    THEN LET afterOpen == IF StartsWith(From(t, 4), JsonLabel) THEN 8 ELSE 4
             middle    == SubSeq(t, afterOpen, Len(t) - 3)
         IN  [matched |-> TRUE,
              g1 |-> DropTrailingWS(DropLeadingWS(middle))]
    ELSE [matched |-> FALSE, g1 |-> <<>>]

\* the string handed to JSON.parse: the trimmed text, or the trimmed content
\* of the fence when the match succeeded and captured a non-empty group
ExtractJsonString(rawContentFromLLM) ==
    LET jsonStringToParse == Trim(rawContentFromLLM)
        markdownMatch     == MarkdownMatch(jsonStringToParse)
    IN  IF markdownMatch.matched /\ markdownMatch.g1 # <<>>
        THEN Trim(markdownMatch.g1)
        ELSE jsonStringToParse

----------------------------------------------------------------------------
(* removeMarkdownBold *)

LineTerminators == {"\n", "\r"}

\* the position of the delimiter pair that closes a pair opened at 1..2:
\* the lazy group (.*?) grows one character at a time and may not cross a
\* line terminator; 0 when the pair is never closed
RECURSIVE ClosingPair(_, _, _)
ClosingPair(s, d, j) ==
    IF j + 1 > Len(s) THEN 0
    ELSE IF s[j] = d /\ s[j + 1] = d THEN j
    ELSE IF s[j] \in LineTerminators THEN 0
    ELSE ClosingPair(s, d, j + 1)

\* text.replace(/dd(.*?)dd/g, "$1") for the delimiter character d
RECURSIVE StripPair(_, _)
StripPair(s, d) ==
    IF Len(s) < 2 THEN s
    ELSE IF s[1] = d /\ s[2] = d /\ ClosingPair(s, d, 3) # 0
         THEN LET j == ClosingPair(s, d, 3)
              IN  SubSeq(s, 3, j - 1) \o StripPair(From(s, j + 2), d)
         ELSE <<s[1]>> \o StripPair(Tail(s), d)

removeMarkdownBold(text) == StripPair(StripPair(text, "*"), "_")

----------------------------------------------------------------------------
(* JavaScript values *)

Val(k, s, a, keys, vals) ==
    [k |-> k, s |-> s, a |-> a, keys |-> keys, vals |-> vals]

Undefined == Val("undefined", <<>>, <<>>, <<>>, <<>>)

Null == Val("null", <<>>, <<>>, <<>>, <<>>)

Str(s) == Val("str", s, <<>>, <<>>, <<>>)

Num(lexeme) == Val("num", lexeme, <<>>, <<>>, <<>>)

Bool(lexeme) == Val("bool", lexeme, <<>>, <<>>, <<>>)

Arr(a) == Val("arr", <<>>, a, <<>>, <<>>)

Obj(keys, vals) == Val("obj", <<>>, <<>>, keys, vals)

\* typeof v
TypeOf(v) ==
    CASE v.k = "str" -> "string"
      [] v.k = "num" -> "number"
      [] v.k = "bool" -> "boolean"
      [] v.k = "undefined" -> "undefined"
      [] OTHER -> "object"

\* Array.isArray(v)
IsArray(v) == v.k = "arr"

\* the index of member name key in keys, 0 when absent
RECURSIVE KeyIndex(_, _, _)
KeyIndex(keys, key, i) ==
    IF i > Len(keys) THEN 0
    ELSE IF keys[i] = key THEN i
    ELSE KeyIndex(keys, key, i + 1)

\* v.key for a member name no prototype defines: the own member of an
\* object, undefined on an array or a primitive.  Reading a member of null
\* or undefined is the TypeError the callers guard against: the model marks
\* it with ok = FALSE.
Get(v, key) ==
    IF v.k \in {"null", "undefined"} THEN [ok |-> FALSE, v |-> Undefined]
    ELSE IF v.k = "obj" /\ KeyIndex(v.keys, key, 1) # 0
         THEN [ok |-> TRUE, v |-> v.vals[KeyIndex(v.keys, key, 1)]]
         ELSE [ok |-> TRUE, v |-> Undefined]

\* v.key = x on an object: an existing member keeps its position
Put(v, key, x) ==
    IF KeyIndex(v.keys, key, 1) # 0
    THEN Obj(v.keys, [v.vals EXCEPT ![KeyIndex(v.keys, key, 1)] = x])
    ELSE Obj(Append(v.keys, key), Append(v.vals, x))

HasNonZeroDigit(s) == \E i \in 1..Len(s) : s[i] \in Digits \ {"0"}

\* the digits of a number lexeme before its exponent
Mantissa(s) ==
    LET e == IF IndexOf(s, <<"e">>, 1) # 0 THEN IndexOf(s, <<"e">>, 1)
             ELSE IndexOf(s, <<"E">>, 1)
    IN  IF e = 0 THEN s ELSE SubSeq(s, 1, e - 1)

\* ToBoolean(v), as in !v
Truthy(v) ==
    CASE v.k = "str" -> v.s # <<>>
      [] v.k = "num" -> HasNonZeroDigit(Mantissa(v.s))
      [] v.k = "bool" -> v.s = <<"t", "r", "u", "e">>
      [] v.k \in {"null", "undefined"} -> FALSE
      [] OTHER -> TRUE

----------------------------------------------------------------------------
(* JSON.parse (ECMA-404) on a sequence of characters.  Every parsing       *)
(* operator returns [ok, v, pos]: whether the text from its start position *)
(* is well formed, the value read and the position behind it.  The \u      *)
(* escape is not modelled: no text the model draws contains it.            *)

ParseFail == [ok |-> FALSE, v |-> Undefined, pos |-> 0]

Quote == "\""

Backslash == "\\"

\* the first position >= i that holds no JSON white space
RECURSIVE SkipWS(_, _)
SkipWS(s, i) == IF i <= Len(s) /\ s[i] \in WS THEN SkipWS(s, i + 1) ELSE i

\* the first position >= i that holds no digit
RECURSIVE SkipDigits(_, _)
SkipDigits(s, i) ==
    IF i <= Len(s) /\ s[i] \in Digits THEN SkipDigits(s, i + 1) ELSE i

\* the character an escape sequence \c stands for, "" when \c is no escape
Unescape(c) ==
    CASE c = Quote -> Quote
      [] c = Backslash -> Backslash
      [] c = "/" -> "/"
      [] c = "n" -> "\n"
      [] c = "t" -> "\t"
      [] c = "r" -> "\r"
      [] c = "b" -> "U+0008"
      [] c = "f" -> "\f"
      [] OTHER -> ""

\* the characters of a string literal whose opening quote is at i - 1
RECURSIVE ParseChars(_, _, _)
ParseChars(s, i, acc) ==
    IF i > Len(s) THEN ParseFail
    ELSE IF s[i] = Quote THEN [ok |-> TRUE, v |-> Str(acc), pos |-> i + 1]
    ELSE IF s[i] = Backslash
         THEN IF i + 1 <= Len(s) /\ Unescape(s[i + 1]) # ""
              THEN ParseChars(s, i + 2, Append(acc, Unescape(s[i + 1])))
              ELSE ParseFail
    ELSE IF s[i] \in {"\n", "\t", "\r"} THEN ParseFail
    ELSE ParseChars(s, i + 1, Append(acc, s[i]))

ParseString(s, i) ==
    IF i <= Len(s) /\ s[i] = Quote THEN ParseChars(s, i + 1, <<>>)
    ELSE ParseFail

\* A number is -? (0 | [1-9][0-9]*) (. [0-9]+)? ([eE] [+-]? [0-9]+)?
\* Each operator below returns the position behind one part of it, given the
\* position behind the part before, and 0 when the number is malformed.
SignEnd(s, i) == IF i <= Len(s) /\ s[i] = "-" THEN i + 1 ELSE i

IntEnd(s, i) ==
    IF i <= Len(s) /\ s[i] = "0" THEN i + 1
    ELSE IF SkipDigits(s, i) > i THEN SkipDigits(s, i)
    ELSE 0

FracEnd(s, i) ==
    IF i = 0 THEN 0
    ELSE IF i <= Len(s) /\ s[i] = "."
         THEN IF SkipDigits(s, i + 1) > i + 1 THEN SkipDigits(s, i + 1) ELSE 0
    ELSE i

ExpDigitsEnd(s, i) == IF SkipDigits(s, i) > i THEN SkipDigits(s, i) ELSE 0

ExpEnd(s, i) ==
    IF i = 0 THEN 0
    ELSE IF i <= Len(s) /\ s[i] \in {"e", "E"}
         THEN ExpDigitsEnd(s, IF i + 1 <= Len(s) /\ s[i + 1] \in {"+", "-"}
                              THEN i + 2 ELSE i + 1)
    ELSE i

NumberFrom(s, i, end) ==
    IF end = 0 THEN ParseFail
    ELSE [ok |-> TRUE, v |-> Num(SubSeq(s, i, end - 1)), pos |-> end]

ParseNumber(s, i) ==
    NumberFrom(s, i, ExpEnd(s, FracEnd(s, IntEnd(s, SignEnd(s, i)))))

LitTrue == <<"t", "r", "u", "e">>

LitFalse == <<"f", "a", "l", "s", "e">>

LitNull == <<"n", "u", "l", "l">>

ParseLiteral(s, i) ==
    IF StartsWith(From(s, i), LitTrue)
    THEN [ok |-> TRUE, v |-> Bool(LitTrue), pos |-> i + 4]
    ELSE IF StartsWith(From(s, i), LitFalse)
    THEN [ok |-> TRUE, v |-> Bool(LitFalse), pos |-> i + 5]
    ELSE IF StartsWith(From(s, i), LitNull)
    THEN [ok |-> TRUE, v |-> Null, pos |-> i + 4]
    ELSE ParseFail

RECURSIVE ParseValue(_, _)
RECURSIVE ParseMembers(_, _, _)
RECURSIVE ParseElements(_, _, _)

\* after a member's value: a comma and more members, or the closing brace
MemberNext(s, obj, next) ==
    IF next > Len(s) THEN ParseFail
    ELSE IF s[next] = "," THEN ParseMembers(s, next + 1, obj)
    ELSE IF s[next] = "}" THEN [ok |-> TRUE, v |-> obj, pos |-> next + 1]
    ELSE ParseFail

\* a member's value has been read; a repeated name overwrites its value
MemberValue(s, obj, name, val) ==
    IF ~val.ok THEN ParseFail
    ELSE MemberNext(s, Put(obj, name, val.v), SkipWS(s, val.pos))

MemberColon(s, obj, name, colon) ==
    IF colon > Len(s) \/ s[colon] # ":" THEN ParseFail
    ELSE MemberValue(s, obj, name, ParseValue(s, colon + 1))

MemberName(s, obj, name) ==
    IF ~name.ok THEN ParseFail
    ELSE MemberColon(s, obj, name.v.s, SkipWS(s, name.pos))

\* the members of an object from position i on, those in obj already read
ParseMembers(s, i, obj) == MemberName(s, obj, ParseString(s, SkipWS(s, i)))

\* after an element: a comma and more elements, or the closing bracket
ElementNext(s, acc, next) ==
    IF next > Len(s) THEN ParseFail
    ELSE IF s[next] = "," THEN ParseElements(s, next + 1, acc)
    ELSE IF s[next] = "]" THEN [ok |-> TRUE, v |-> Arr(acc), pos |-> next + 1]
    ELSE ParseFail

ElementValue(s, acc, val) ==
    IF ~val.ok THEN ParseFail
    ELSE ElementNext(s, Append(acc, val.v), SkipWS(s, val.pos))

\* the elements of an array from position i on, those in acc already read
ParseElements(s, i, acc) == ElementValue(s, acc, ParseValue(s, i))

\* j is the first position behind the opening brace that holds no white space
ParseObjectAt(s, j) ==
    IF j <= Len(s) /\ s[j] = "}"
    THEN [ok |-> TRUE, v |-> Obj(<<>>, <<>>), pos |-> j + 1]
    ELSE ParseMembers(s, j, Obj(<<>>, <<>>))

ParseArrayAt(s, j) ==
    IF j <= Len(s) /\ s[j] = "]"
    THEN [ok |-> TRUE, v |-> Arr(<<>>), pos |-> j + 1]
    ELSE ParseElements(s, j, <<>>)

\* the value that starts at j, a position that holds no white space
ParseValueAt(s, j) ==
    IF j > Len(s) THEN ParseFail
    ELSE IF s[j] = "{" THEN ParseObjectAt(s, SkipWS(s, j + 1))
    ELSE IF s[j] = "[" THEN ParseArrayAt(s, SkipWS(s, j + 1))
    ELSE IF s[j] = Quote THEN ParseString(s, j)
    ELSE IF s[j] \in Digits \cup {"-"} THEN ParseNumber(s, j)
    ELSE ParseLiteral(s, j)

ParseValue(s, i) == ParseValueAt(s, SkipWS(s, i))

\* a parse is complete when only white space follows the value
WholeText(text, r) ==
    IF r.ok /\ SkipWS(text, r.pos) > Len(text)
    THEN [ok |-> TRUE, v |-> r.v]
    ELSE [ok |-> FALSE, v |-> Undefined]

\* JSON.parse(text): ok = FALSE is the SyntaxError it throws
JsonParse(text) == WholeText(text, ParseValue(text, 1))

----------------------------------------------------------------------------
(* parseAndValidateAIResponse *)

kType == <<"t", "y", "p", "e">>

kAnswer == <<"a", "n", "s", "w", "e", "r">>

kFollowUp == <<"f", "o", "l", "l", "o", "w", "_", "u", "p">>

kTitle == <<"t", "i", "t", "l", "e">>

kItems == <<"i", "t", "e", "m", "s">>

kMessage == <<"m", "e", "s", "s", "a", "g", "e">>

kPoint == <<"p", "o", "i", "n", "t">>

kDetail == <<"d", "e", "t", "a", "i", "l">>

sText == <<"t", "e", "x", "t">>

sList == <<"l", "i", "s", "t">>

sError == <<"e", "r", "r", "o", "r">>

\* the two source labels the adapters pass to the validator
SourceLabels == {"OpenRouter", "GoogleAI"}

\* { type: "error", message: message }
ErrorResponse(message) == Obj(<<kType, kMessage>>, <<Str(sError), Str(message)>>)

\* the error code a message ends with: "(E:", code, ... , ")"
CodeTag(code) == <<"(E:", code>>

\* "(E:PVnn_<source>)", the tag that closes every message of the validator
PVTag(code, source) == CodeTag(code) \o <<"_", source, ")">>

\* a value inside a template literal: ${v}
RECURSIVE ToStringJS(_)
RECURSIVE JoinJS(_, _)
ToStringJS(v) ==
    CASE v.k \in {"str", "num", "bool"} -> v.s
      [] v.k = "null" -> <<"null">>
      [] v.k = "undefined" -> <<"undefined">>
      [] v.k = "arr" -> JoinJS(v.a, 1)
      [] OTHER -> <<"[object Object]">>

\* Array.prototype.join: null and undefined elements print as nothing
JoinJS(a, i) ==
    IF i > Len(a) THEN <<>>
    ELSE (IF a[i].k \in {"null", "undefined"} THEN <<>> ELSE ToStringJS(a[i]))
         \o (IF i < Len(a) THEN <<",">> ELSE <<>>)
         \o JoinJS(a, i + 1)

\* what a call produces: the value it returns, or threw = TRUE and the
\* message of the Error when an exception leaves it
Returned(v) == [threw |-> FALSE, v |-> v, message |-> <<>>]

\* throw new Error(message)
ThrownError(message) == [threw |-> TRUE, v |-> Undefined, message |-> message]

\* the TypeError of a member read on null or undefined
Thrown == ThrownError(<<"Cannot read properties of null">>)

\* StructureCheck without the parsedData === null test
StructureCheckNoNullTest(parsedData) ==
    IF TypeOf(parsedData) # "object" THEN "invalid"
    ELSE IF ~Get(parsedData, kType).ok THEN "throw"
    ELSE IF ~Truthy(Get(parsedData, kType).v) THEN "invalid"
    ELSE "ok"

\* line 233: typeof parsedData !== 'object' || parsedData === null ||
\* !parsedData.type, evaluated left to right: "invalid" when the condition
\* holds, "ok" when it does not, "throw" when evaluating it raises
StructureCheck(parsedData) ==
    IF TypeOf(parsedData) # "object" THEN "invalid"
    ELSE IF parsedData.k = "null" THEN "invalid"
    ELSE IF ~Get(parsedData, kType).ok THEN "throw"
    ELSE IF ~Truthy(Get(parsedData, kType).v) THEN "invalid"
    ELSE "ok"

\* lines 238-243: a truthy string follow_up loses its bold markers; any
\* other follow_up that is neither null nor undefined becomes null
NormalizeFollowUp(parsedData) ==
    LET follow_up == Get(parsedData, kFollowUp).v
    IN  IF Truthy(follow_up) /\ TypeOf(follow_up) = "string"
        THEN Put(parsedData, kFollowUp, Str(removeMarkdownBold(follow_up.s)))
        ELSE IF follow_up.k \notin {"null", "undefined"}
        THEN Put(parsedData, kFollowUp, Null)
        ELSE parsedData

InvalidItem ==
    Obj(<<kPoint, kDetail>>,
        <<Str(<<"N/A">>), Str(<<"Invalid item structure">>)>>)

\* item.point / item.detail when it is a string, "N/A" otherwise
StringOrNA(v) == IF TypeOf(v) = "string" THEN v.s ELSE <<"N/A">>

\* lines 261-270, the callback of items.map
MapItem(item) ==
    IF TypeOf(item) # "object" \/ item.k = "null" THEN Returned(InvalidItem)
    ELSE IF ~Get(item, kPoint).ok THEN Thrown
    ELSE Returned(Obj(<<kPoint, kDetail>>,
            <<Str(removeMarkdownBold(StringOrNA(Get(item, kPoint).v))),
              Str(removeMarkdownBold(StringOrNA(Get(item, kDetail).v)))>>))

\* MapItems dropping the elements that are not objects instead of replacing
\* them
MapItemsDropsInvalid(items) ==
    LET kept == SelectSeq(items, LAMBDA item : TypeOf(item) = "object" /\ item.k # "null")
    IN  [i \in 1..Len(kept) |-> MapItem(kept[i])]

\* items.map(callback): one result per element, in order
MapItems(items) == [i \in 1..Len(items) |-> MapItem(items[i])]

\* lines 260-272: the list response once its elements have been mapped
ListResponse(parsedData, mapped) ==
    IF \E i \in 1..Len(mapped) : mapped[i].threw
    THEN Thrown
    ELSE Returned(Put(Put(parsedData, kTitle,
                          Str(removeMarkdownBold(Get(parsedData, kTitle).v.s))),
                      kItems, Arr([i \in 1..Len(mapped) |-> mapped[i].v])))

\* Dispatch testing the answer of a text payload for truth instead of for
\* its type
DispatchTruthyAnswer(parsedData, source) ==
    IF Get(parsedData, kType).v = Str(sText)
    THEN IF ~Truthy(Get(parsedData, kAnswer).v)
            \/ TypeOf(Get(parsedData, kAnswer).v) # "string"
         THEN Returned(ErrorResponse(
                <<"AI 'text' response from ", source, " missing 'answer'. ">>
                \o PVTag("PV03", source)))
         ELSE Returned(Put(parsedData, kAnswer,
                Str(removeMarkdownBold(Get(parsedData, kAnswer).v.s))))
    ELSE IF Get(parsedData, kType).v = Str(sList)
    THEN IF TypeOf(Get(parsedData, kTitle).v) # "string"
            \/ ~IsArray(Get(parsedData, kItems).v)
         THEN Returned(ErrorResponse(
                <<"AI 'list' response from ", source, " invalid. ">>
                \o PVTag("PV04", source)))
         ELSE ListResponse(parsedData, MapItems(Get(parsedData, kItems).v.a))
    ELSE IF Get(parsedData, kType).v = Str(sError)
    THEN IF TypeOf(Get(parsedData, kMessage).v) # "string"
         THEN Returned(ErrorResponse(
                <<"AI 'error' response from ", source, " missing 'message'. ">>
                \o PVTag("PV05", source)))
         ELSE Returned(parsedData)
    ELSE Returned(ErrorResponse(
           <<"AI from ", source, " returned unknown type: '">>
           \o ToStringJS(Get(parsedData, kType).v) \o <<"'. ">>
           \o PVTag("PV06", source)))

\* lines 246-283, the switch on parsedData.type
Dispatch(parsedData, source) ==
    IF Get(parsedData, kType).v = Str(sText)
    THEN IF TypeOf(Get(parsedData, kAnswer).v) # "string"
         THEN Returned(ErrorResponse(
                <<"AI 'text' response from ", source, " missing 'answer'. ">>
                \o PVTag("PV03", source)))
         ELSE Returned(Put(parsedData, kAnswer,
                Str(removeMarkdownBold(Get(parsedData, kAnswer).v.s))))
    ELSE IF Get(parsedData, kType).v = Str(sList)
    THEN IF TypeOf(Get(parsedData, kTitle).v) # "string"
            \/ ~IsArray(Get(parsedData, kItems).v)
         THEN Returned(ErrorResponse(
                <<"AI 'list' response from ", source, " invalid. ">>
                \o PVTag("PV04", source)))
         ELSE ListResponse(parsedData, MapItems(Get(parsedData, kItems).v.a))
    ELSE IF Get(parsedData, kType).v = Str(sError)
    THEN IF TypeOf(Get(parsedData, kMessage).v) # "string"
         THEN Returned(ErrorResponse(
                <<"AI 'error' response from ", source, " missing 'message'. ">>
                \o PVTag("PV05", source)))
         ELSE Returned(parsedData)
    ELSE Returned(ErrorResponse(
           <<"AI from ", source, " returned unknown type: '">>
           \o ToStringJS(Get(parsedData, kType).v) \o <<"'. ">>
           \o PVTag("PV06", source)))

\* the validator without the try/catch of lines 224-231 around JSON.parse
ValidateParsedUnguarded(parsed, source) ==
    IF ~parsed.ok THEN Thrown
    ELSE IF StructureCheck(parsed.v) = "throw" THEN Thrown
    ELSE IF StructureCheck(parsed.v) = "invalid"
    THEN Returned(ErrorResponse(
           <<"AI response from ", source, " invalid structure. ">>
           \o PVTag("PV02", source)))
    ELSE Dispatch(NormalizeFollowUp(parsed.v), source)

\* lines 224-284: the validator from the result of JSON.parse on
ValidateParsed(parsed, source) ==
    IF ~parsed.ok
    THEN Returned(ErrorResponse(
           <<"AI service response from ", source, " was not valid JSON. ">>
           \o PVTag("PV01", source)))
    ELSE IF StructureCheck(parsed.v) = "throw" THEN Thrown
    ELSE IF StructureCheck(parsed.v) = "invalid"
    THEN Returned(ErrorResponse(
           <<"AI response from ", source, " invalid structure. ">>
           \o PVTag("PV02", source)))
    ELSE Dispatch(NormalizeFollowUp(parsed.v), source)

parseAndValidateAIResponse(rawContentFromLLM, source) ==
    ValidateParsed(JsonParse(ExtractJsonString(rawContentFromLLM)), source)

----------------------------------------------------------------------------
(* Texts a provider may complete with *)

Q(s) == <<Quote>> \o s \o <<Quote>>

\* "name":valueText
Member(name, valueText) == Q(name) \o <<":">> \o valueText

RECURSIVE CommaJoin(_)
CommaJoin(texts) ==
    IF texts = <<>> THEN <<>>
    ELSE IF Len(texts) = 1 THEN texts[1]
    ELSE texts[1] \o <<",">> \o CommaJoin(Tail(texts))

ObjText(members) == <<"{">> \o CommaJoin(members) \o <<"}">>

ArrText(elements) == <<"[">> \o CommaJoin(elements) \o <<"]">>

\* texts of list elements: two well-formed ones (one with bold markers),
\* then a number, null, a string, an array, and objects with a missing or
\* non-string side
ItemTexts ==
    { ObjText(<<Member(kPoint, Q(<<"a">>)), Member(kDetail, Q(<<"b">>))>>),
      ObjText(<<Member(kPoint, Q(<<"*", "*", "p", "*", "*">>)),
                Member(kDetail, Q(<<"_", "_", "d", "_", "_", "!">>))>>),
      <<"4", "2">>,
      LitNull,
      Q(<<"x">>),
      ArrText(<<>>),
      ObjText(<<Member(kPoint, Q(<<"a">>))>>),
      ObjText(<<Member(kPoint, <<"1">>), Member(kDetail, Q(<<"d">>))>>) }

\* the longest items array drawn
MaxItems == 2

RECURSIVE SeqsUpTo(_, _)
SeqsUpTo(S, n) ==
    IF n = 0 THEN {<<>>}
    ELSE LET shorter == SeqsUpTo(S, n - 1)
         IN  shorter \cup {Append(q, x) : q \in {r \in shorter : Len(r) = n - 1},
                                          x \in S}

ListPayloads ==
    { ObjText(<<Member(kType, Q(sList)),
                Member(kTitle, Q(<<"*", "*", "T", "*", "*">>)),
                Member(kItems, ArrText(items))>>) :
        items \in SeqsUpTo(ItemTexts, MaxItems) }

FollowUpTexts ==
    { LitNull, Q(<<"_", "_", "f", "_", "_">>), Q(<<>>), <<"5">>, ArrText(<<>>) }

TextPayloads ==
    { ObjText(<<Member(kType, Q(sText)), Member(kAnswer, Q(<<"o", "k">>))>>),
      ObjText(<<Member(kType, Q(sText)), Member(kAnswer, Q(<<>>))>>),
      ObjText(<<Member(kType, Q(sText))>>),
      ObjText(<<Member(kType, Q(sText)), Member(kAnswer, <<"7">>)>>),
      ObjText(<<Member(kType, Q(sText)), Member(kAnswer, LitNull)>>) }
    \cup
    { ObjText(<<Member(kType, Q(sText)),
                Member(kAnswer, Q(<<"*", "*", "b", "*", "*", "*">>)),
                Member(kFollowUp, f)>>) : f \in FollowUpTexts }

OtherObjectPayloads ==
    { ObjText(<<Member(kType, Q(sError)), Member(kMessage, Q(<<"n", "o">>))>>),
      ObjText(<<Member(kType, Q(sError))>>),
      ObjText(<<Member(kType, Q(sError)), Member(kMessage, <<"1">>)>>),
      ObjText(<<Member(kType, Q(sList)), Member(kItems, ArrText(<<>>))>>),
      ObjText(<<Member(kType, Q(sList)), Member(kTitle, Q(<<"T">>))>>),
      ObjText(<<Member(kType, Q(sList)), Member(kTitle, Q(<<"T">>)),
                Member(kItems, ObjText(<<>>))>>),
      ObjText(<<Member(kType, Q(<<"t", "a", "b", "l", "e">>))>>),
      ObjText(<<Member(kType, <<"5">>)>>),
      ObjText(<<Member(kType, ArrText(<<>>))>>),
      ObjText(<<Member(kType, <<"0">>)>>),
      ObjText(<<Member(kType, Q(<<>>))>>),
      ObjText(<<Member(kType, LitNull)>>),
      ObjText(<<>>),
      ObjText(<<Member(kAnswer, Q(<<"o", "k">>))>>) }

NonObjectPayloads ==
    { LitNull, LitTrue, <<"4", "2">>, <<"0">>, Q(<<"h", "i">>), ArrText(<<>>),
      ArrText(<<ObjText(<<Member(kType, Q(sText))>>)>>) }

NonJsonPayloads ==
    { <<"n", "o", "t", " ", "j", "s", "o", "n">>,
      <<"{">> \o Member(kType, <<>>),
      ObjText(<<Member(kType, Q(sText))>>) \o <<",">>,
      <<"{", "'", "a", "'", ":", "1", "}">>,
      <<"0", "1">>,
      <<"j", "s", "o", "n">> }

Payloads ==
    ListPayloads \cup TextPayloads \cup OtherObjectPayloads
    \cup NonObjectPayloads \cup NonJsonPayloads

\* a payload inside a code fence, with or without the json label
Fenced(label, body) == Fence \o label \o <<"\n">> \o body \o <<"\n">> \o Fence

\* the payloads that are also drawn inside fences
WrappedPayloads ==
    { ObjText(<<Member(kType, Q(sText)), Member(kAnswer, Q(<<"o", "k">>))>>),
      ObjText(<<Member(kType, Q(sList)), Member(kTitle, Q(<<"T">>)),
                Member(kItems, ArrText(<<<<"4", "2">>>>))>>),
      LitNull,
      <<"n", "o">>,
      <<Backtick>>,
      <<>>,
      <<" ">> }

FencedTexts ==
    UNION { { Fenced(<<>>, b), Fenced(JsonLabel, b),
              Fence \o b \o Fence,
              Fence \o JsonLabel \o b \o Fence,
              Fenced(JsonLabel, Fenced(JsonLabel, b)),
              Fenced(<<>>, Fence \o b \o Fence),
              <<" ", "\n">> \o Fenced(JsonLabel, b) \o <<"\n">>,
              Fence \o JsonLabel \o <<"\n">> \o b,
              <<"H", "i", ":", " ">> \o Fenced(JsonLabel, b),
              <<" ">> \o b \o <<"\n", " ">> } : b \in WrappedPayloads }

\* completions that are empty or hold white space only
BlankTexts == { <<>>, <<" ">>, <<"\n", " ", "\t">> }

CompletionTexts == Payloads \cup FencedTexts \cup BlankTexts

----------------------------------------------------------------------------
(* getAnswerFromLLM and the two provider adapters *)

VARIABLES
    OPENROUTER_API_KEY,     \* TRUE when the primary key is a non-empty string
    GOOGLE_AI_API_KEY,      \* TRUE when the secondary key is a non-empty string
    effectiveKnowledgeBase, \* TRUE when override || KNOWLEDGE_BASE_CONTENT is non-empty
    pc,                     \* where the invocation of getAnswerFromLLM stands
    calls,                  \* the adapter and network events so far, in order
    inFlight,               \* the providers with a network call outstanding
    primaryOutcome,         \* how axios.post settled
    secondaryOutcome,       \* how model.generateContent settled
    openRouterError,        \* the message of the error caught at line 83
    validatedFrom,          \* the source label of the validator call, or "none"
    jsonStringToParse,      \* the string that validator call handed to JSON.parse
    result,                 \* how the promise of getAnswerFromLLM settled
    MONGODB_URI,            \* TRUE when process.env.MONGODB_URI is set
    isConnected,            \* the flag of db.ts
    history,                \* the documents of the QAHistory collection, in insertion order
    route,                  \* the route of the request being served, "none" before the first
    userId,                 \* req.auth.userId of that request, NoUser without a session
    question,               \* req.body.question of that request
    hp,                     \* where the handler of that request stands
    responses,              \* the HTTP responses sent to that request, in order
    dbError,                \* TRUE when the catch of line 60 caught a failed save
    asked,                  \* TRUE once the request on /api/ask has arrived
    startupConnect          \* TRUE while the mongoose.connect of the start-up call is in flight

\* the variables of one invocation of getAnswerFromLLM
llmVars == <<pc, calls, inFlight, primaryOutcome, secondaryOutcome,
             openRouterError, validatedFrom, jsonStringToParse, result>>

\* the environment of the process
envVars == <<OPENROUTER_API_KEY, GOOGLE_AI_API_KEY, effectiveKnowledgeBase,
             MONGODB_URI>>

vars == <<OPENROUTER_API_KEY, GOOGLE_AI_API_KEY, effectiveKnowledgeBase, pc,
          calls, inFlight, primaryOutcome, secondaryOutcome, openRouterError,
          validatedFrom, jsonStringToParse, result, MONGODB_URI, isConnected,
          history, route, userId, question, hp, responses, dbError, asked,
          startupConnect>>

NoOutcome == [kind |-> "none", text |-> <<>>]

Content(text) == [kind |-> "content", text |-> text]

Failure(kind) == [kind |-> kind, text |-> <<>>]

\* how axios.post can settle: a response whose first choice carries a string
\* content; a response without one; a timeout after 75000 ms; a network
\* error; a non-2xx status; an error without a message
AxiosFailureKinds == {"timeout", "network", "status", "noMessage"}

AxiosOutcomes ==
    {Content(t) : t \in CompletionTexts} \cup {Failure("noContent")}
    \cup {Failure(k) : k \in AxiosFailureKinds}

\* how generateContent followed by response.text() can settle: a text, an
\* error of the SDK (network, status, blocked response), an error without a
\* message.  The call is given no timeout: it may also never settle.
GoogleFailureKinds == {"sdkError", "noMessage"}

GoogleOutcomes ==
    {Content(t) : t \in CompletionTexts} \cup {Failure(k) : k \in GoogleFailureKinds}

FailureMessage(kind) ==
    CASE kind = "timeout" -> <<"timeout of 75000ms exceeded">>
      [] kind = "network" -> <<"Network Error">>
      [] kind = "status" -> <<"Request failed with status code 500">>
      [] kind = "sdkError" -> <<"[GoogleGenerativeAI Error]: fetch failed">>
      [] OTHER -> <<>>

\* message || fallback
OrElse(message, fallback) == IF message = <<>> THEN <<fallback>> ELSE message

Pending == [settled |-> "pending", v |-> Undefined]

Resolved(v) == [settled |-> "resolved", v |-> v]

Rejected == [settled |-> "rejected", v |-> Undefined]

\* commonPreChecks without the test of line 101
commonPreChecksNoKeyTest ==
    IF ~effectiveKnowledgeBase
    THEN ErrorResponse(<<"Critical Error: Knowledge base unavailable. Contact support. ">>
                       \o CodeTag("CFG02") \o <<")">>)
    ELSE Null

\* commonPreChecks without the test of line 107
commonPreChecksNoKnowledgeTest ==
    IF ~OPENROUTER_API_KEY /\ ~GOOGLE_AI_API_KEY
    THEN ErrorResponse(<<"Critical Error: AI service API key(s) missing. Contact support. ">>
                       \o CodeTag("CFG00") \o <<")">>)
    ELSE Null

\* lines 100-111: the error to return, or Null when all checks pass
commonPreChecks ==
    IF ~OPENROUTER_API_KEY /\ ~GOOGLE_AI_API_KEY
    THEN ErrorResponse(<<"Critical Error: AI service API key(s) missing. Contact support. ">>
                       \o CodeTag("CFG00") \o <<")">>)
    ELSE IF ~effectiveKnowledgeBase
    THEN ErrorResponse(<<"Critical Error: Knowledge base unavailable. Contact support. ">>
                       \o CodeTag("CFG02") \o <<")">>)
    ELSE Null

\* IsEmptyContent without the trim: a completion of white space only counts
\* as content
IsEmptyContentNoTrim(rawContent) == rawContent = <<>>

\* line 143 / line 196: the completion counts as empty
IsEmptyContent(rawContent) == rawContent = <<>> \/ Trim(rawContent) = <<>>

\* an error-kind answer turned into a thrown Error
ThrowIfError(validated) ==
    IF Get(validated.v, kType).v = Str(sError)
    THEN ThrownError(Get(validated.v, kMessage).v.s)
    ELSE validated

\* line 117: attemptOpenRouter called without a primary key throws before
\* it builds its request
OpenRouterNotConfigured ==
    ThrownError(<<"OpenRouter API key not configured for attemptOpenRouter. ">>
                \o CodeTag("OR_CFG") \o <<")">>)

\* line 159: getAnswerFromGoogleAI called without a secondary key throws
\* before its try block, so the catch of line 202 does not wrap the error
GoogleAINotConfigured ==
    ThrownError(<<"Google AI API key not configured. ">>
                \o CodeTag("GA_CFG") \o <<")">>)

\* attemptOpenRouter throwing when the validator answers with an error, so
\* that a validation failure falls back to the secondary
OpenRouterCompletionStrict(outcome) ==
    IF outcome.kind = "content"
    THEN IF IsEmptyContent(outcome.text)
         THEN ThrownError(<<"OpenRouter AI service returned empty or invalid content. ">>
                          \o CodeTag("OR_LR01") \o <<")">>)
         ELSE ThrowIfError(parseAndValidateAIResponse(outcome.text, "OpenRouter"))
    ELSE IF outcome.kind = "noContent"
    THEN ThrownError(<<"OpenRouter AI service returned empty or invalid content. ">>
                     \o CodeTag("OR_LR01") \o <<")">>)
    ELSE ThrownError(FailureMessage(outcome.kind))

\* lines 142-154: attemptOpenRouter from the point where axios.post settled;
\* the catch at line 148 logs and rethrows the same error
OpenRouterCompletion(outcome) ==
    IF outcome.kind = "content"
    THEN IF IsEmptyContent(outcome.text)
         THEN ThrownError(<<"OpenRouter AI service returned empty or invalid content. ">>
                          \o CodeTag("OR_LR01") \o <<")">>)
         ELSE parseAndValidateAIResponse(outcome.text, "OpenRouter")
    ELSE IF outcome.kind = "noContent"
    THEN ThrownError(<<"OpenRouter AI service returned empty or invalid content. ">>
                     \o CodeTag("OR_LR01") \o <<")">>)
    ELSE ThrownError(FailureMessage(outcome.kind))

\* lines 116-155: attemptOpenRouter as a whole, given whether the key is
\* set and how axios.post settles when it is issued
attemptOpenRouter(key, outcome) ==
    IF ~key THEN OpenRouterNotConfigured ELSE OpenRouterCompletion(outcome)

\* GoogleAITry handing the label of the primary to the validator
GoogleAITryWrongLabel(outcome) ==
    IF outcome.kind = "content"
    THEN IF IsEmptyContent(outcome.text)
         THEN ThrownError(<<"Google AI service returned empty content. ">>
                          \o CodeTag("GA_LR01") \o <<")">>)
         ELSE parseAndValidateAIResponse(outcome.text, "OpenRouter")
    ELSE ThrownError(FailureMessage(outcome.kind))

\* lines 192-201: the try block of getAnswerFromGoogleAI
GoogleAITry(outcome) ==
    IF outcome.kind = "content"
    THEN IF IsEmptyContent(outcome.text)
         THEN ThrownError(<<"Google AI service returned empty content. ">>
                          \o CodeTag("GA_LR01") \o <<")">>)
         ELSE parseAndValidateAIResponse(outcome.text, "GoogleAI")
    ELSE ThrownError(FailureMessage(outcome.kind))

\* lines 202-205: the catch block wraps whatever the try block threw in a
\* new Error
GoogleAICatch(attempt) ==
    IF attempt.threw
    THEN ThrownError(<<"Google AI service failed: ">>
                     \o OrElse(attempt.message, "Unknown Google AI Error")
                     \o <<" ">> \o CodeTag("GA_AX") \o <<")">>)
    ELSE attempt

\* GoogleAICompletion treating an error-kind answer of the validator as a
\* failure of the provider
GoogleAICompletionStrict(outcome) ==
    GoogleAICatch(ThrowIfError(GoogleAITry(outcome)))

\* lines 191-205: getAnswerFromGoogleAI from the point where generateContent
\* settled
GoogleAICompletion(outcome) == GoogleAICatch(GoogleAITry(outcome))

\* lines 158-206: getAnswerFromGoogleAI as a whole, given whether the key is
\* set and how generateContent settles when it is issued
getAnswerFromGoogleAI(key, outcome) ==
    IF ~key THEN GoogleAINotConfigured ELSE GoogleAICompletion(outcome)

\* FallbackSettlement without the inner try/catch of lines 87-92: the error
\* of the fallback leaves getAnswerFromLLM
FallbackSettlementRethrows(googleAI) ==
    IF googleAI.threw THEN Rejected ELSE Resolved(googleAI.v)

\* lines 87-92: the settlement of getAnswerFromLLM on the fallback path
FallbackSettlement(googleAI) ==
    IF googleAI.threw
    THEN Resolved(ErrorResponse(
           <<"All AI services failed. Google AI Error: ">>
           \o OrElse(googleAI.message, "Unknown Google AI Error")
           \o <<" ">> \o CodeTag("F01") \o <<")">>))
    ELSE Resolved(googleAI.v)

\* lines 93-96: the settlement when the fallback is skipped
NoFallbackSettlement(message) ==
    Resolved(ErrorResponse(
      <<"Primary AI service failed and no fallback configured. OpenRouter Error: ">>
      \o OrElse(message, "Unknown OpenRouter Error")
      \o <<" ">> \o CodeTag("F02") \o <<")">>))

\* the catch block going on to the fallback without the test of line 85
FallbackConfiguredAlways == TRUE

\* line 85: whether the catch block goes on to the fallback
FallbackConfigured == GOOGLE_AI_API_KEY

----------------------------------------------------------------------------
(* The server: the handlers of /api/ask and /api/history, the error        *)
(* handler, the database connection and the QAHistory collection.  One     *)
(* request is followed at a time; the variables route, userId, question,   *)
(* hp, responses and dbError belong to the request being served.           *)

\* req.auth.userId of a request without a session
NoUser == ""

Users == {"u1", "u2", "u3"}

\* the user whose exchange on /api/ask is followed; /api/history is
\* requested by either user
Askers == {"u1"}

\* the longest QAHistory collection the process starts with
MaxStored == 23

\* part_001 line 95: limit(20)
HistoryLimit == 20

\* a document of the QAHistory collection (part_000: userId, question,
\* llmResponse, timestamp)
Document(uid, q, llmResponse, timestamp) ==
    [userId |-> uid, question |-> q, llmResponse |-> llmResponse,
     timestamp |-> timestamp]

\* a collection of n documents left by earlier exchanges: most belong to
\* u1, every eighth to u2, none to u3, and their timestamps are neither in
\* order nor distinct
SeededStore(n) ==
    [i \in 1..n |->
        Document(IF i % 8 = 2 THEN "u2" ELSE "u1",
                 Str(<<"q">>),
                 Obj(<<kType, kAnswer>>, <<Str(sText), Str(<<"o", "k">>)>>),
                 (i * 7) % 10)]

\* the collection the process finds at its start: u3 holds no document, u2
\* a few, and u1 as many as a history response may carry
InitialStore == SeededStore(MaxStored)

\* part_000, default: Date.now at the construction of a document; the clock
\* has passed the timestamp of every document stored before
DateNow(store) ==
    IF store = <<>> THEN 0
    ELSE 1 + (CHOOSE t \in {store[i].timestamp : i \in DOMAIN store} :
                \A i \in DOMAIN store : store[i].timestamp <= t)

\* find({ userId }): the documents of that user
Find(store, uid) == SelectSeq(store, LAMBDA d : d.userId = uid)

\* one document put into a sequence that is ordered newest first, behind
\* the documents of its own timestamp
RECURSIVE InsertNewestFirst(_, _)
InsertNewestFirst(sorted, d) ==
    IF sorted = <<>> THEN <<d>>
    ELSE IF Head(sorted).timestamp >= d.timestamp
    THEN <<Head(sorted)>> \o InsertNewestFirst(Tail(sorted), d)
    ELSE <<d>> \o sorted

\* sort({ timestamp: -1 })
RECURSIVE SortNewestFirst(_)
SortNewestFirst(docs) ==
    IF docs = <<>> THEN <<>>
    ELSE InsertNewestFirst(SortNewestFirst(SubSeq(docs, 1, Len(docs) - 1)),
                           docs[Len(docs)])

\* limit(n)
Limit(docs, n) == SubSeq(docs, 1, IF Len(docs) < n THEN Len(docs) ELSE n)

\* the query of /api/history without its limit
HistoryQueryUnlimited(store, uid) == SortNewestFirst(Find(store, uid))

\* part_001 lines 93-95
HistoryQuery(store, uid) ==
    Limit(SortNewestFirst(Find(store, uid)), HistoryLimit)

\* res.status(status).json(body), and the same with an array of documents
Json(status, body) == [status |-> status, body |-> body, items |-> <<>>]

JsonItems(status, items) == [status |-> status, body |-> Undefined, items |-> items]

\* an Error object as the error handler reads it; 0 stands for an absent
\* status or statusCode
Err(status, message, clerkError) ==
    [status |-> status, statusCode |-> status, message |-> message,
     clerkError |-> clerkError]

\* what express.json passes on for a body that is not JSON
BodyParseError == Err(400, <<"Unexpected token in JSON">>, FALSE)

\* what requireAuth passes on for a request without a session; the
\* middleware is the library's, so its error is any of: a plain Error, or
\* an error of Clerk carrying status 401 or 403
ClerkErrors ==
    { Err(0, <<"Unauthenticated">>, FALSE),
      Err(401, <<"Unauthenticated">>, TRUE),
      Err(403, <<"Forbidden">>, TRUE) }

\* what mongoose throws from save or find when the operation fails
MongooseError == Err(0, <<"Operation buffering timed out">>, FALSE)

\* the rejection of getAnswerFromLLM, if it had one
LLMError == Err(0, <<>>, FALSE)

\* part_001 line 108
StatusCode(err) ==
    IF err.statusCode # 0 THEN err.statusCode
    ELSE IF err.status # 0 THEN err.status
    ELSE 500

\* part_001 lines 109-117; err.errors is not drawn
ErrorMessage(err) ==
    IF err.clerkError \/ err.status \in {401, 403}
    THEN <<"Authentication Error: ">>
         \o OrElse(err.message, "Please check credentials.")
         \o <<" ">> \o CodeTag("CLK") \o <<ToString(StatusCode(err)), ")">>
    ELSE OrElse(err.message, "Internal Server Error")

\* part_001 lines 105-126: the responses of the request once the error
\* handler has run; with a response already sent it sends none
globalErrorHandler(err, sent) ==
    IF sent # <<>> THEN sent
    ELSE <<Json(StatusCode(err), ErrorResponse(ErrorMessage(err)))>>

\* part_001 line 35
BadQuestion(q) == ~Truthy(q) \/ TypeOf(q) # "string" \/ Trim(q.s) = <<>>

\* the values of req.body.question drawn: absent, a number, the empty
\* string, a blank string, a question
Questions ==
    { Undefined, Num(<<"7">>), Str(<<>>), Str(<<" ", "\n">>), Str(<<"q", "?">>) }

\* the request bodies drawn: one that express.json cannot parse, and one
\* object per question
Bodies ==
    { [parses |-> FALSE, question |-> Undefined] }
    \cup { [parses |-> TRUE, question |-> q] : q \in Questions }

\* part_002 line 71: ensureDbConnection goes on to connectToDatabase, which
\* (lines 26-38) goes on to mongoose.connect
NeedsConnect == ~isConnected /\ MONGODB_URI

\* the handler has sent these responses and returned
Finish(sent) == hp' = "finished" /\ responses' = sent

\* the test of line 52 without its test of the type
ShouldSaveAnyType(uid, llmResponse) == uid # NoUser

\* part_001 line 52
ShouldSave(uid, llmResponse) ==
    uid # NoUser /\ Get(llmResponse, kType).v \in {Str(sText), Str(sList)}

\* part_001 lines 50-68 up to the next await: the handler of /api/ask
\* resumes with llmResponse, and either starts the save of a document or
\* responds
Answered(llmResponse) ==
    IF ShouldSave(userId, llmResponse)
    THEN hp' = "awaitSave" /\ responses' = responses
    ELSE Finish(Append(responses, Json(200, llmResponse)))

\* part_001 lines 70-73: the catch block hands the error to the error handler
Caught(err) == Finish(globalErrorHandler(err, responses))

\* part_001 line 48: the promise of getAnswerFromLLM has settled this way
Settled(settlement) ==
    IF settlement.settled = "rejected" THEN Caught(LLMError)
    ELSE Answered(settlement.v)

\* part_001 line 48: the handler stays at its await
AwaitingLLM == hp' = "awaitLLM" /\ responses' = responses

----------------------------------------------------------------------------
(* The actions *)

\* lines 83-97, the catch block of getAnswerFromLLM up to its next await:
\* with a secondary key getAnswerFromGoogleAI is called and issues
\* generateContent, without one the invocation ends with F02.  (The adapter
\* tests the key again at line 159, before it issues anything.)
PrimaryFailed(callsSoFar, message) ==
    /\ openRouterError' = message
    /\ IF FallbackConfigured /\ ~GOOGLE_AI_API_KEY
       THEN /\ calls' = callsSoFar \o <<"getAnswerFromGoogleAI", "GoogleAI.failed">>
            /\ inFlight' = {}
            /\ pc' = "done"
            /\ result' = FallbackSettlement(GoogleAINotConfigured)
            /\ Settled(FallbackSettlement(GoogleAINotConfigured))
       ELSE IF FallbackConfigured
       THEN /\ calls' = callsSoFar \o <<"getAnswerFromGoogleAI", "generateContent">>
            /\ inFlight' = {"GoogleAI"}
            /\ pc' = "awaitGoogleAI"
            /\ result' = result
            /\ AwaitingLLM
       ELSE /\ calls' = callsSoFar
            /\ inFlight' = {}
            /\ pc' = "done"
            /\ result' = NoFallbackSettlement(message)
            /\ Settled(NoFallbackSettlement(message))

\* the process after its start: the environment is what it is and no
\* request has arrived.  The start-up call of connectToDatabase (part_001
\* lines 14-19) is not awaited before the server listens: it was skipped,
\* has settled, or has its mongoose.connect still in flight.
Init ==
    /\ OPENROUTER_API_KEY \in BOOLEAN
    /\ GOOGLE_AI_API_KEY \in BOOLEAN
    /\ effectiveKnowledgeBase \in BOOLEAN
    /\ pc = "idle"
    /\ calls = <<>>
    /\ inFlight = {}
    /\ primaryOutcome = NoOutcome
    /\ secondaryOutcome = NoOutcome
    /\ openRouterError = <<>>
    /\ validatedFrom = "none"
    /\ jsonStringToParse = <<>>
    /\ result = Pending
    /\ MONGODB_URI \in BOOLEAN
    /\ isConnected \in {c \in BOOLEAN : c => MONGODB_URI}
    /\ history = InitialStore
    /\ route = "none"
    /\ userId = NoUser
    /\ question = Undefined
    /\ hp = "idle"
    /\ responses = <<>>
    /\ dbError = FALSE
    /\ asked = FALSE
    /\ startupConnect \in {s \in BOOLEAN : s => (MONGODB_URI /\ ~isConnected)}

\* part_001 lines 28-45: whatever ran between the arrival of the request on
\* /api/ask and the first await of its handler
AskEntered(uid, body) ==
    IF ~body.parses THEN Finish(globalErrorHandler(BodyParseError, <<>>))
    ELSE IF uid = NoUser
    THEN \E err \in ClerkErrors : Finish(globalErrorHandler(err, <<>>))
    ELSE IF BadQuestion(body.question)
    THEN Finish(<<Json(400, ErrorResponse(
                   <<"Question is required and must be a non-empty string.">>))>>)
    ELSE /\ responses' = <<>>
         /\ hp' = IF NeedsConnect THEN "awaitDb" ELSE "callLLM"

\* part_001 lines 22, 28-45: a request arrives on /api/ask, passes
\* express.json and requireAuth, and its handler runs to the await of
\* ensureDbConnection.  One exchange on /api/ask is followed.
PostAsk ==
    /\ ~asked
    /\ hp \in {"idle", "finished"}
    /\ asked' = TRUE
    /\ route' = "ask"
    /\ \E uid \in Askers \cup {NoUser}, body \in Bodies :
         /\ userId' = IF body.parses THEN uid ELSE NoUser
         /\ question' = body.question
         /\ AskEntered(uid, body)
    /\ UNCHANGED <<envVars, startupConnect, llmVars, isConnected, history, dbError>>

\* part_001 lines 77-91: a request arrives on /api/history, passes
\* requireAuth, and its handler runs to its first await on the network.
\* The locals of the exchange served before are gone.  (The test of line 84
\* is behind requireAuth: no request without a session reaches it.)
GetHistory ==
    /\ hp \in {"idle", "finished"}
    /\ route' = "history"
    /\ question' = Undefined
    /\ dbError' = FALSE
    /\ pc' = "idle"
    /\ calls' = <<>>
    /\ inFlight' = {}
    /\ primaryOutcome' = NoOutcome
    /\ secondaryOutcome' = NoOutcome
    /\ openRouterError' = <<>>
    /\ validatedFrom' = "none"
    /\ jsonStringToParse' = <<>>
    /\ result' = Pending
    /\ \E uid \in Users \cup {NoUser} :
         /\ userId' = uid
         /\ IF uid = NoUser
            THEN \E err \in ClerkErrors : Finish(globalErrorHandler(err, <<>>))
            ELSE /\ responses' = <<>>
                 /\ hp' = IF NeedsConnect THEN "awaitDb" ELSE "awaitFind"
    /\ UNCHANGED <<envVars, startupConnect, isConnected, history, asked>>

\* connectToDatabase with the throw of part_002 line 63 in place: a failed
\* connect leaves ensureDbConnection as an error
ConnectSettledRethrows(connected) ==
    /\ isConnected' = connected
    /\ IF connected
       THEN /\ hp' = IF route = "ask" THEN "callLLM" ELSE "awaitFind"
            /\ responses' = responses
       ELSE Caught(MongooseError)

\* part_002 lines 38-64: mongoose.connect has settled; a failure is logged
\* and the caller of ensureDbConnection resumes either way
ConnectSettled(connected) ==
    /\ isConnected' = connected
    /\ hp' = IF route = "ask" THEN "callLLM" ELSE "awaitFind"
    /\ responses' = responses

\* part_002 lines 38-64, part_001 lines 45 and 91: mongoose.connect settles
ConnectSettles ==
    /\ hp = "awaitDb"
    /\ \E connected \in BOOLEAN : ConnectSettled(connected)
    /\ UNCHANGED <<envVars, startupConnect, llmVars, history, route, userId, question,
                   dbError, asked>>

\* Ask without the test of line 117: the request to the primary is issued
\* whether or not its key is set
AskWithoutKeyTest ==
    /\ pc = "idle"
    /\ hp = "callLLM"
    /\ UNCHANGED <<envVars, startupConnect, primaryOutcome, secondaryOutcome, validatedFrom,
                   jsonStringToParse, isConnected, history, route, userId,
                   question, dbError, asked>>
    /\ IF commonPreChecks # Null
       THEN /\ result' = Resolved(commonPreChecks)
            /\ pc' = "done"
            /\ Settled(Resolved(commonPreChecks))
            /\ UNCHANGED <<calls, inFlight, openRouterError>>
       ELSE /\ calls' = <<"attemptOpenRouter", "axios.post">>
            /\ inFlight' = {"OpenRouter"}
            /\ pc' = "awaitOpenRouter"
            /\ AwaitingLLM
            /\ UNCHANGED <<openRouterError, result>>

\* Ask issuing the two provider calls together instead of one after the other
AskBothAtOnce ==
    /\ pc = "idle"
    /\ hp = "callLLM"
    /\ UNCHANGED <<envVars, startupConnect, primaryOutcome, secondaryOutcome, validatedFrom,
                   jsonStringToParse, isConnected, history, route, userId,
                   question, dbError, asked>>
    /\ IF commonPreChecks # Null
       THEN /\ result' = Resolved(commonPreChecks)
            /\ pc' = "done"
            /\ Settled(Resolved(commonPreChecks))
            /\ UNCHANGED <<calls, inFlight, openRouterError>>
       ELSE /\ calls' = <<"attemptOpenRouter", "axios.post",
                          "getAnswerFromGoogleAI", "generateContent">>
            /\ inFlight' = {"OpenRouter", "GoogleAI"}
            /\ pc' = "awaitOpenRouter"
            /\ AwaitingLLM
            /\ UNCHANGED <<openRouterError, result>>

\* part_001 line 48, lines 75-82 and 116-141: the handler of /api/ask
\* resumes behind ensureDbConnection and calls getAnswerFromLLM, which runs
\* to its first await on the network, or to its end when the precheck fails
Ask ==
    /\ pc = "idle"
    /\ hp = "callLLM"
    /\ UNCHANGED <<envVars, startupConnect, primaryOutcome, secondaryOutcome, validatedFrom,
                   jsonStringToParse, isConnected, history, route, userId,
                   question, dbError, asked>>
    /\ IF commonPreChecks # Null
       THEN /\ result' = Resolved(commonPreChecks)
            /\ pc' = "done"
            /\ Settled(Resolved(commonPreChecks))
            /\ UNCHANGED <<calls, inFlight, openRouterError>>
       ELSE IF ~OPENROUTER_API_KEY
       THEN PrimaryFailed(<<"attemptOpenRouter", "OpenRouter.failed">>,
                          OpenRouterNotConfigured.message)
       ELSE /\ calls' = <<"attemptOpenRouter", "axios.post">>
            /\ inFlight' = {"OpenRouter"}
            /\ pc' = "awaitOpenRouter"
            /\ AwaitingLLM
            /\ UNCHANGED <<openRouterError, result>>

\* the validator was called on the completion of this outcome
Validated(outcome) == outcome.kind = "content" /\ ~IsEmptyContent(outcome.text)

\* what the validator call on this outcome, if any, leaves behind
RecordValidation(outcome, source) ==
    IF Validated(outcome)
    THEN /\ validatedFrom' = source
         /\ jsonStringToParse' = ExtractJsonString(outcome.text)
    ELSE UNCHANGED <<validatedFrom, jsonStringToParse>>

\* lines 82-97: attemptOpenRouter has returned or thrown
OpenRouterSettled(attempt) ==
    IF attempt.threw
    THEN PrimaryFailed(Append(calls, "OpenRouter.failed"), attempt.message)
    ELSE /\ calls' = Append(calls, "OpenRouter.returned")
         /\ inFlight' = {}
         /\ pc' = "done"
         /\ result' = Resolved(attempt.v)
         /\ Settled(Resolved(attempt.v))
         /\ UNCHANGED openRouterError

\* lines 142-154 and 82-97: axios.post settles
OpenRouterSettles ==
    /\ pc = "awaitOpenRouter"
    /\ \E outcome \in AxiosOutcomes :
         /\ primaryOutcome' = outcome
         /\ RecordValidation(outcome, "OpenRouter")
         /\ OpenRouterSettled(attemptOpenRouter(OPENROUTER_API_KEY, outcome))
    /\ UNCHANGED <<envVars, startupConnect, secondaryOutcome, isConnected, history, route,
                   userId, question, dbError, asked>>

\* lines 88-92: getAnswerFromGoogleAI has returned or thrown
GoogleAISettled(attempt) ==
    /\ calls' = Append(calls, IF attempt.threw THEN "GoogleAI.failed"
                              ELSE "GoogleAI.returned")
    /\ result' = FallbackSettlement(attempt)
    /\ Settled(FallbackSettlement(attempt))
    /\ inFlight' = {}
    /\ pc' = "done"

\* lines 192-205 and 88-92: generateContent settles
GoogleAISettles ==
    /\ pc = "awaitGoogleAI"
    /\ \E outcome \in GoogleOutcomes :
         /\ secondaryOutcome' = outcome
         /\ RecordValidation(outcome, "GoogleAI")
         /\ GoogleAISettled(getAnswerFromGoogleAI(GOOGLE_AI_API_KEY, outcome))
    /\ UNCHANGED <<envVars, startupConnect, primaryOutcome, openRouterError, isConnected,
                   history, route, userId, question, dbError, asked>>

\* part_002 lines 38-64 and part_001 lines 14-19: the mongoose.connect of
\* the start-up call settles, whatever the request served is doing; line 39
\* or line 59 writes the flag
StartupConnectSettles ==
    /\ startupConnect
    /\ startupConnect' = FALSE
    /\ \E connected \in BOOLEAN : isConnected' = connected
    /\ UNCHANGED <<envVars, llmVars, history, route, userId, question, hp,
                   responses, dbError, asked>>

\* the handler of /api/ask handing a failed save to its outer catch
SaveSettledPropagates(saved) ==
    /\ history' = IF saved
                  THEN Append(history, Document(userId, question, result.v,
                                                DateNow(history)))
                  ELSE history
    /\ dbError' = ~saved
    /\ IF saved THEN Finish(Append(responses, Json(200, result.v)))
       ELSE Caught(MongooseError)

\* part_001 lines 53-68: historyEntry.save has settled; the handler logs
\* either way and responds with llmResponse
SaveSettled(saved) ==
    /\ history' = IF saved
                  THEN Append(history, Document(userId, question, result.v,
                                                DateNow(history)))
                  ELSE history
    /\ dbError' = ~saved
    /\ Finish(Append(responses, Json(200, result.v)))

\* part_001 lines 53-68: historyEntry.save settles; without a connection
\* it fails
SaveSettles ==
    /\ hp = "awaitSave"
    /\ \E saved \in {s \in BOOLEAN : s => isConnected} : SaveSettled(saved)
    /\ UNCHANGED <<envVars, startupConnect, llmVars, isConnected, route, userId, question,
                   asked>>

\* part_001 lines 93-101: the query has settled
FindSettled(found) ==
    IF found THEN Finish(<<JsonItems(200, HistoryQuery(history, userId))>>)
    ELSE Caught(MongooseError)

\* part_001 lines 93-101: the query of /api/history settles; without a
\* connection it fails
FindSettles ==
    /\ hp = "awaitFind"
    /\ \E found \in {f \in BOOLEAN : f => isConnected} : FindSettled(found)
    /\ UNCHANGED <<envVars, startupConnect, llmVars, isConnected, history, route, userId,
                   question, dbError, asked>>

Next ==
    \/ PostAsk
    \/ GetHistory
    \/ ConnectSettles
    \/ Ask
    \/ OpenRouterSettles
    \/ GoogleAISettles
    \/ SaveSettles
    \/ FindSettles
    \/ StartupConnectSettles

Spec == Init /\ [][Next]_vars

\* What the code's scheduling guarantees: a handler that can resume does;
\* axios.post is given a timeout (line 140), mongoose.connect a server
\* selection timeout (part_002 line 19), and save and find give up when no
\* connection takes them.  model.generateContent (line 192) is given no
\* timeout: nothing makes it settle.
FairSpec ==
    /\ Spec
    /\ WF_vars(Ask)
    /\ WF_vars(OpenRouterSettles)
    /\ WF_vars(ConnectSettles)
    /\ WF_vars(SaveSettles)
    /\ WF_vars(FindSettles)
    /\ WF_vars(StartupConnectSettles)


----------------------------------------------------------------------------
(* Vocabulary of the properties *)

Count(events, e) == Cardinality({i \in DOMAIN events : events[i] = e})

\* the member type / message / items of the value getAnswerFromLLM resolved to
ResultType == Get(result.v, kType).v

ResultMessage == Get(result.v, kMessage).v.s

ResultItems == Get(result.v, kItems).v.a

LegalTypes == {Str(sText), Str(sList), Str(sError)}

\* the code of the last "(E:code" tag of a message, "" when it has none
LastCode(message) ==
    LET tags == {i \in 1..(Len(message) - 1) : message[i] = "(E:"}
    IN  IF tags = {} THEN ""
        ELSE message[(CHOOSE i \in tags : \A j \in tags : j <= i) + 1]

PVCodes == {"PV01", "PV02", "PV03", "PV04", "PV05", "PV06"}

\* the value names the provider label in one of its string members
IsLabelled(v, label) ==
    \E i \in 1..Len(v.vals) :
        v.vals[i].k = "str" /\ \E j \in 1..Len(v.vals[i].s) : v.vals[i].s[j] = label

Done == pc = "done"

PrecheckPassed == commonPreChecks = Null

PrimaryFailure == Count(calls, "OpenRouter.failed") > 0

\* the primary / secondary provider answered with a completion that is not
\* empty in the sense of lines 143 and 196
PrimaryCompleted == Validated(primaryOutcome)

SecondaryCompleted == Validated(secondaryOutcome)

\* the adapter invocations and network calls are ordered as a sequential
\* fallback: no adapter is invoked twice, the primary adapter is the first
\* event, the secondary adapter is invoked right after the primary attempt
\* ended in failure, and at most one network call is outstanding
SequentialFallback ==
    /\ Count(calls, "attemptOpenRouter") <= 1
    /\ Count(calls, "axios.post") <= 1
    /\ Count(calls, "getAnswerFromGoogleAI") <= 1
    /\ Count(calls, "generateContent") <= 1
    /\ calls # <<>> => calls[1] = "attemptOpenRouter"
    /\ \A i \in DOMAIN calls :
          calls[i] = "getAnswerFromGoogleAI" => i > 1 /\ calls[i - 1] = "OpenRouter.failed"
    /\ Cardinality(inFlight) <= 1

----------------------------------------------------------------------------
(* Properties *)

\* C1: getAnswerFromLLM never fails outward: its promise is never rejected,
\* and once the invocation has ended, whatever the credentials, the knowledge
\* base and the outcomes of the two providers were, it is resolved to a value
\* whose type is text, list or error.
C1_NeverFailsOutward ==
    /\ result.settled # "rejected"
    /\ Done => result.settled = "resolved" /\ ResultType \in LegalTypes

\* C1 witness: the primary timed out, the fallback failed too, and the
\* invocation ended resolved to an error.
C1_Witness ==
    /\ Done
    /\ primaryOutcome.kind = "timeout"
    /\ secondaryOutcome.kind = "sdkError"
    /\ result.settled = "resolved"
    /\ ResultType = Str(sError)

\* C2 as stated: in every invocation the primary adapter is attempted exactly
\* once by the time the invocation ends, within a sequential fallback.
C2_Original ==
    /\ SequentialFallback
    /\ Done => Count(calls, "attemptOpenRouter") = 1

\* C2 amended: in every invocation that passes the precheck the primary
\* adapter is attempted first and exactly once; in every invocation the
\* secondary is attempted at most once, only right after the primary attempt
\* ended in failure, and the two attempts never overlap.  An invocation that
\* fails the precheck attempts no provider.
C2_SequentialFallback ==
    /\ SequentialFallback
    /\ (Done /\ PrecheckPassed) => Count(calls, "attemptOpenRouter") = 1
    /\ (Done /\ ~PrecheckPassed) => calls = <<>>

\* C2 witness: both providers were attempted, the secondary after the
\* primary had timed out.
C2_Witness ==
    /\ Done
    /\ primaryOutcome.kind = "timeout"
    /\ Count(calls, "attemptOpenRouter") = 1
    /\ Count(calls, "getAnswerFromGoogleAI") = 1

\* C3: with no credential for either provider the invocation ends with an
\* error whose code is CFG00, and at no point is an adapter invoked or a
\* network call issued.
C3_NoCredentials ==
    (~OPENROUTER_API_KEY /\ ~GOOGLE_AI_API_KEY) =>
        /\ calls = <<>>
        /\ inFlight = {}
        /\ pc \in {"idle", "done"}
        /\ Done => /\ ResultType = Str(sError)
                   /\ LastCode(ResultMessage) = "CFG00"

\* C3 witness: an invocation without any credential has ended.
C3_Witness ==
    Done /\ ~OPENROUTER_API_KEY /\ ~GOOGLE_AI_API_KEY /\ effectiveKnowledgeBase

\* C4 as stated: whenever the primary failed and the secondary adapter
\* returned, the result names the secondary provider, and the primary
\* adapter was invoked exactly once before the secondary.
C4_Original ==
    (Done /\ PrimaryFailure /\ Count(calls, "GoogleAI.returned") > 0) =>
        /\ IsLabelled(result.v, "GoogleAI")
        /\ Count(calls, "attemptOpenRouter") = 1
        /\ calls[1] = "attemptOpenRouter"

\* C4 amended: whenever the primary failed and the secondary adapter
\* returned, the primary adapter was invoked exactly once before the
\* secondary, the result never names the primary provider, and it names the
\* secondary provider exactly when it is an error the validator raised about
\* the secondary's text (code PV01..PV06); a text, a list or an error relayed
\* from the model carries no provenance.
C4_FallbackProvenance ==
    (Done /\ PrimaryFailure /\ Count(calls, "GoogleAI.returned") > 0) =>
        /\ Count(calls, "attemptOpenRouter") = 1
        /\ calls[1] = "attemptOpenRouter"
        /\ ~IsLabelled(result.v, "OpenRouter")
        /\ IsLabelled(result.v, "GoogleAI")
              <=> (ResultType = Str(sError) /\ LastCode(ResultMessage) \in PVCodes)

\* C4 witness: the primary failed on the network and the secondary produced
\* a list.
C4_Witness ==
    /\ Done
    /\ primaryOutcome.kind = "network"
    /\ Count(calls, "GoogleAI.returned") = 1
    /\ ResultType = Str(sList)

C6_TerminalCodes ==
    /\ (Done /\ PrimaryFailure /\ GOOGLE_AI_API_KEY /\ Count(calls, "GoogleAI.failed") > 0) =>
          /\ ResultType = Str(sError)
          /\ LastCode(ResultMessage) = "F01"
    /\ (PrimaryFailure /\ ~GOOGLE_AI_API_KEY) =>
          /\ Done
          /\ ResultType = Str(sError)
          /\ LastCode(ResultMessage) = "F02"
          /\ Count(calls, "getAnswerFromGoogleAI") = 0
          /\ Count(calls, "generateContent") = 0

\* C6 witness: the primary failed with no secondary key configured.
C6_Witness ==
    Done /\ PrimaryFailure /\ ~GOOGLE_AI_API_KEY /\ primaryOutcome.kind = "status"

C9_ExtractIdempotent ==
    validatedFrom # "none" => ExtractJsonString(jsonStringToParse) = jsonStringToParse

\* C10: a payload of type list with a string title and an items array of
\* length n validates to a list whose items array has length n, in the same
\* order: an element that is not an object becomes the placeholder, an
\* object element keeps each of point and detail that is a string (bold
\* markers stripped) and gets N/A for the other; in particular a well-formed
\* element keeps both.
C10_ListDegrades ==
    LET parsed == JsonParse(jsonStringToParse)
        payload == parsed.v
        items == Get(payload, kItems).v.a
    IN  (/\ Done
         /\ validatedFrom # "none"
         /\ parsed.ok
         /\ payload.k = "obj"
         /\ Get(payload, kType).v = Str(sList)
         /\ Get(payload, kTitle).v.k = "str"
         /\ Get(payload, kItems).v.k = "arr") =>
            /\ ResultType = Str(sList)
            /\ Len(ResultItems) = Len(items)
            /\ \A i \in 1..Len(items) :
                  IF items[i].k # "obj"
                  THEN IF items[i].k = "arr"
                       THEN ResultItems[i].vals = <<Str(<<"N/A">>), Str(<<"N/A">>)>>
                       ELSE ResultItems[i] = InvalidItem
                  ELSE /\ ResultItems[i].keys = <<kPoint, kDetail>>
                       /\ \A side \in 1..2 :
                            LET given == Get(items[i], ResultItems[i].keys[side]).v
                            IN  ResultItems[i].vals[side] =
                                  IF given.k = "str"
                                  THEN Str(removeMarkdownBold(given.s))
                                  ELSE Str(<<"N/A">>)

\* C10 witness: a list of two elements, the first one a number and the
\* second one well formed with bold markers, came back as a list of two.
C10_Witness ==
    /\ Done
    /\ ResultType = Str(sList)
    /\ Len(ResultItems) = 2
    /\ ResultItems[1] = InvalidItem
    /\ ResultItems[2].vals = <<Str(<<"p">>), Str(<<"d", "!">>)>>
    /\ Get(JsonParse(jsonStringToParse).v, kItems).v.a[1].k = "num"

\* the request on /api/ask has been handled to the end
AskFinished == route = "ask" /\ hp = "finished"

\* the request on /api/history has been handled to the end
HistoryFinished == route = "history" /\ hp = "finished"

\* the request carried a session and a question that is a string and is
\* not the empty string
AuthenticatedQuestion ==
    route = "ask" /\ userId # NoUser /\ question.k = "str" /\ question.s # <<>>

\* C11: a step adds to the history collection only while an exchange on
\* /api/ask is served whose user is known and whose answer from
\* getAnswerFromLLM has type text or list, and what it adds is the one
\* document of that exchange; no step removes or changes a document.  So
\* an exchange whose answer is of type error, whatever produced the error,
\* leaves the collection as it was.
C11_NoPersistenceOnError ==
    [][history' # history =>
         /\ route = "ask"
         /\ userId # NoUser
         /\ Done
         /\ ResultType \in {Str(sText), Str(sList)}
         /\ Len(history') = Len(history) + 1
         /\ SubSeq(history', 1, Len(history)) = history
         /\ history'[Len(history')].userId = userId
         /\ history'[Len(history')].llmResponse = result.v]_vars

\* C11 witness: with the database connected, a known user got an error the
\* validator raised, and the exchange ended with the collection as it was
\* at the start.
C11_Witness ==
    /\ AskFinished
    /\ userId # NoUser
    /\ isConnected
    /\ ResultType = Str(sError)
    /\ validatedFrom = "OpenRouter"
    /\ history = InitialStore

\* C12: once the handler of /api/ask has ended an exchange for which it
\* tried to save a document, the one response it sent is status 200 with
\* exactly the value getAnswerFromLLM resolved to, whether the save
\* succeeded or threw; and a save that threw added nothing.
C12_SaveFailureSwallowed ==
    (AskFinished /\ Done /\ ShouldSave(userId, result.v)) =>
        /\ responses = <<Json(200, result.v)>>
        /\ dbError => history = InitialStore

\* C12 witness: the save of a list answer threw and the response is 200.
C12_Witness ==
    /\ AskFinished
    /\ dbError
    /\ isConnected
    /\ ResultType = Str(sList)
    /\ responses[1].status = 200

\* C13 as stated: a request is sent at most one response, and exactly one
\* once its handler has ended; a request on /api/ask with a session and a
\* question that is a non-empty string is answered with status 200 and a
\* body of type text, list or error; another status is sent only to a
\* request without a session or without such a question.
C13_Original ==
    /\ Len(responses) <= 1
    /\ hp = "finished" => Len(responses) = 1
    /\ (AskFinished /\ AuthenticatedQuestion) =>
          /\ responses[1].status = 200
          /\ Get(responses[1].body, kType).v \in LegalTypes
    /\ (AskFinished /\ responses[1].status # 200) => ~AuthenticatedQuestion

\* C13 amended: the same for a question that is a string holding more than
\* white space; a question that is empty or blank is answered with 400, as
\* a malformed body is.  The response is sent when the handler ends, which
\* is when getAnswerFromLLM and the save have settled.
C13_AlwaysAnswers ==
    /\ Len(responses) <= 1
    /\ hp = "finished" => Len(responses) = 1
    /\ (AskFinished /\ userId # NoUser /\ ~BadQuestion(question)) =>
          /\ responses[1].status = 200
          /\ Get(responses[1].body, kType).v \in LegalTypes
    /\ (AskFinished /\ userId # NoUser /\ BadQuestion(question)) =>
          responses[1].status = 400
    /\ (AskFinished /\ responses[1].status # 200) =>
          userId = NoUser \/ BadQuestion(question)

\* C13 witness: the connect to the database failed, both providers failed,
\* and the request was answered with status 200 and the error F01.
C13_Witness ==
    /\ AskFinished
    /\ MONGODB_URI
    /\ ~isConnected
    /\ secondaryOutcome.kind = "sdkError"
    /\ responses[1].status = 200
    /\ LastCode(Get(responses[1].body, kMessage).v.s) = "F01"

\* C14: every provider call is bounded by a timeout that makes it settle,
\* so an invocation of getAnswerFromLLM that is waiting for a provider,
\* primary or secondary, eventually reaches its terminal result, also when
\* that provider never responds.
C14_EveryCallTimesOut ==
    (pc \in {"awaitOpenRouter", "awaitGoogleAI"}) ~> Done

\* C15: with a credential for at least one provider and no knowledge base,
\* at no point is an adapter invoked or a network call issued, neither at
\* first nor as a retry, and the invocation ends with an error whose code
\* is CFG02.
C15_KnowledgeBaseUnavailable ==
    ((OPENROUTER_API_KEY \/ GOOGLE_AI_API_KEY) /\ ~effectiveKnowledgeBase) =>
        /\ calls = <<>>
        /\ inFlight = {}
        /\ pc \in {"idle", "done"}
        /\ Done => /\ ResultType = Str(sError)
                   /\ LastCode(ResultMessage) = "CFG02"

\* C15 witness: an invocation with both credentials and no knowledge base
\* has ended, and its error was sent to the caller.
C15_Witness ==
    /\ Done
    /\ AskFinished
    /\ OPENROUTER_API_KEY
    /\ GOOGLE_AI_API_KEY
    /\ ~effectiveKnowledgeBase
    /\ LastCode(ResultMessage) = "CFG02"

\* C16: a response of status 200 to a request on /api/history carries
\* documents of the collection that all belong to the requesting user, in
\* an order in which no document is older than the one behind it, and it
\* carries at most 20 of them.
C16_HistoryQuery ==
    (HistoryFinished /\ responses[1].status = 200) =>
        /\ Len(responses[1].items) <= 20
        /\ \A i \in 1..Len(responses[1].items) :
              /\ responses[1].items[i].userId = userId
              /\ \E j \in 1..Len(history) : history[j] = responses[1].items[i]
              /\ i > 1 => responses[1].items[i - 1].timestamp
                            >= responses[1].items[i].timestamp

\* C16 witness: the collection holds documents of both users, more than 20
\* of them of the requesting user, and the response carries 20.
C16_Witness ==
    /\ HistoryFinished
    /\ responses[1].status = 200
    /\ Len(responses[1].items) = 20
    /\ Len(Find(history, userId)) > 20
    /\ \E j \in 1..Len(history) : history[j].userId # userId

\* the value the validator parsed, when it parsed one
ParsedValue == JsonParse(jsonStringToParse).v

\* the validator was called and JSON.parse accepted its text
Parsed == Done /\ validatedFrom # "none" /\ JsonParse(jsonStringToParse).ok

\* the result is the validator's error of this code
IsPV(code) == ResultType = Str(sError) /\ LastCode(ResultMessage) = code

\* C17: on every text a provider completed with whose extracted string is
\* not JSON, and under either label, the validator returns an error whose
\* message carries the code PV01 and names that label; and the invocation
\* that validated such a text ends with this error under the label of the
\* provider that produced it.
C17_NotJson ==
    /\ \A outcome \in {primaryOutcome, secondaryOutcome} :
          (outcome.kind = "content"
             /\ ~JsonParse(ExtractJsonString(outcome.text)).ok) =>
          \A source \in SourceLabels :
            LET answer == parseAndValidateAIResponse(outcome.text, source)
            IN  /\ ~answer.threw
                /\ Get(answer.v, kType).v = Str(sError)
                /\ LastCode(Get(answer.v, kMessage).v.s) = "PV01"
                /\ IsLabelled(answer.v, source)
                /\ \A other \in SourceLabels \ {source} : ~IsLabelled(answer.v, other)
    /\ (Done /\ validatedFrom # "none" /\ ~JsonParse(jsonStringToParse).ok) =>
          IsPV("PV01") /\ IsLabelled(result.v, validatedFrom)

\* C17 witness: the secondary completed with a fenced text that is not
\* JSON, and the invocation ended with PV01.
C17_Witness ==
    /\ Done
    /\ validatedFrom = "GoogleAI"
    /\ secondaryOutcome.text = Fenced(JsonLabel, <<"n", "o">>)
    /\ jsonStringToParse = <<"n", "o">>
    /\ IsPV("PV01")

\* C18: when the parsed value is not an object, or is an object whose type
\* member is not a string or is the empty string (absent, null, a number, a
\* nested object or array), the result is an error with code PV02.
C18_StructureCode ==
    (Done /\ validatedFrom # "none") =>
        LET parsed == JsonParse(jsonStringToParse)
        IN  (parsed.ok /\ (\/ parsed.v.k # "obj"
                           \/ Get(parsed.v, kType).v.k # "str"
                           \/ Get(parsed.v, kType).v.s = <<>>)) =>
                IsPV("PV02")

C20_FollowUpNormalized ==
    (Done /\ validatedFrom # "none") =>
      LET parsed == JsonParse(jsonStringToParse)
          Payload == parsed.v
      IN
      (/\ parsed.ok
       /\ StructureCheck(Payload) = "ok"
       /\ ~(ResultType = Str(sError) /\ LastCode(ResultMessage) \in PVCodes)) =>
        /\ ResultType = Get(Payload, kType).v
        /\ Get(Payload, kFollowUp).v.k = "str" =>
              Get(result.v, kFollowUp).v
                = Str(removeMarkdownBold(Get(Payload, kFollowUp).v.s))
        /\ Get(Payload, kFollowUp).v.k \in {"null", "undefined"} =>
              Get(result.v, kFollowUp).v = Get(Payload, kFollowUp).v
        /\ Get(Payload, kFollowUp).v.k \notin {"str", "null", "undefined"} =>
              Get(result.v, kFollowUp).v = Null

\* C21: in a list payload with a string title and an items array, every
\* element that is not a JSON object (a number, string, boolean, null or
\* array) comes back as exactly the placeholder {point: "N/A", detail:
\* "Invalid item structure"}, and every object element comes back with N/A
\* for exactly those of point and detail that are missing or not strings,
\* the other side kept (bold markers stripped).
C21_ItemsMapped ==
    (Done /\ validatedFrom # "none") =>
      LET parsed == JsonParse(jsonStringToParse)
          items == Get(parsed.v, kItems).v.a
      IN
      (/\ parsed.ok
       /\ parsed.v.k = "obj"
       /\ Get(parsed.v, kType).v = Str(sList)
       /\ Get(parsed.v, kTitle).v.k = "str"
       /\ Get(parsed.v, kItems).v.k = "arr") =>
          /\ ResultType = Str(sList)
          /\ Len(ResultItems) = Len(items)
          /\ \A i \in 1..Len(items) :
                IF items[i].k # "obj"
                THEN ResultItems[i] = InvalidItem
                ELSE /\ ResultItems[i].keys = <<kPoint, kDetail>>
                     /\ \A side \in 1..2 :
                          ResultItems[i].vals[side] =
                            IF Get(items[i], ResultItems[i].keys[side]).v.k = "str"
                            THEN Str(removeMarkdownBold(
                                   Get(items[i], ResultItems[i].keys[side]).v.s))
                            ELSE Str(<<"N/A">>)

\* the text of the completion the validator was called on
ValidatedText ==
    IF validatedFrom = "OpenRouter" THEN primaryOutcome.text
    ELSE secondaryOutcome.text

\* C22: when the trimmed completion is a fenced block spanning the whole
\* text (with or without the json label), the string handed to JSON.parse is
\* the content of the fence, trimmed, which is the empty string for an empty
\* fence; in every other case it is the trimmed completion, unchanged.
C22_ExtractorContract ==
    validatedFrom # "none" =>
      jsonStringToParse =
        IF MarkdownMatch(Trim(ValidatedText)).matched
        THEN Trim(MarkdownMatch(Trim(ValidatedText)).g1)
        ELSE Trim(ValidatedText)

\* the call has settled with nothing the adapter can use: an error, a
\* non-success status, a response without a completion, or a completion
\* that is empty or holds white space only
Unusable(outcome) ==
    outcome.kind # "none" /\ (outcome.kind = "content" => Trim(outcome.text) = <<>>)

\* C23: each adapter throws, and returns nothing, when its key is not set,
\* and when its network call settles with an error, a non-success status or
\* a completion that is empty or white space only.  So no such completion
\* reaches the validator; on the primary it starts the fallback exactly when
\* a secondary key is set, as a network failure does; on the secondary it
\* ends the invocation with F01.
C23_AdaptersFail ==
    /\ \A outcome \in {primaryOutcome, secondaryOutcome} :
          /\ attemptOpenRouter(FALSE, outcome).threw
          /\ getAnswerFromGoogleAI(FALSE, outcome).threw
          /\ Unusable(outcome) =>
                /\ attemptOpenRouter(TRUE, outcome).threw
                /\ getAnswerFromGoogleAI(TRUE, outcome).threw
    /\ validatedFrom # "none" => Trim(ValidatedText) # <<>>
    /\ (PrecheckPassed /\ ~OPENROUTER_API_KEY /\ pc # "idle") => PrimaryFailure
    /\ Unusable(primaryOutcome) =>
          /\ PrimaryFailure
          /\ Count(calls, "OpenRouter.returned") = 0
          /\ validatedFrom # "OpenRouter"
          /\ Count(calls, "getAnswerFromGoogleAI") = 1 <=> GOOGLE_AI_API_KEY
          /\ ~GOOGLE_AI_API_KEY => Done /\ LastCode(ResultMessage) = "F02"
    /\ Unusable(secondaryOutcome) =>
          /\ Count(calls, "GoogleAI.failed") = 1
          /\ Count(calls, "GoogleAI.returned") = 0
          /\ validatedFrom = "none"
          /\ Done
          /\ ResultType = Str(sError)
          /\ LastCode(ResultMessage) = "F01"

\* C23 witness: the primary completed with white space only, the secondary
\* was called and its answer came back.
C23_Witness ==
    /\ Done
    /\ primaryOutcome.kind = "content"
    /\ primaryOutcome.text = <<"\n", " ", "\t">>
    /\ PrimaryFailure
    /\ validatedFrom = "GoogleAI"
    /\ ResultType = Str(sText)

\* C24: a provider whose key is not set is never contacted over the
\* network.  With the secondary key alone the precheck passes, the primary
\* attempt fails before any request is issued, the secondary is called right
\* after, and the answer is what the validator makes of the secondary's
\* completion, or the error F01 when the secondary fails.
C24_NoContactWithoutCredential ==
    /\ ~OPENROUTER_API_KEY =>
          /\ Count(calls, "axios.post") = 0
          /\ "OpenRouter" \notin inFlight
          /\ primaryOutcome = NoOutcome
    /\ ~GOOGLE_AI_API_KEY =>
          /\ Count(calls, "generateContent") = 0
          /\ "GoogleAI" \notin inFlight
          /\ secondaryOutcome = NoOutcome
    /\ (~OPENROUTER_API_KEY /\ GOOGLE_AI_API_KEY /\ effectiveKnowledgeBase) =>
          /\ PrecheckPassed
          /\ pc # "idle" =>
                SubSeq(calls, 1, 4) = <<"attemptOpenRouter", "OpenRouter.failed",
                                        "getAnswerFromGoogleAI", "generateContent">>
          /\ Done =>
                IF Count(calls, "GoogleAI.failed") > 0
                THEN ResultType = Str(sError) /\ LastCode(ResultMessage) = "F01"
                ELSE /\ validatedFrom = "GoogleAI"
                     /\ result = Resolved(
                          parseAndValidateAIResponse(secondaryOutcome.text, "GoogleAI").v)

\* C24 witness: with the secondary key alone, an invocation ended with a
\* list the secondary produced.
C24_Witness ==
    /\ Done
    /\ ~OPENROUTER_API_KEY
    /\ GOOGLE_AI_API_KEY
    /\ Count(calls, "GoogleAI.returned") = 1
    /\ ResultType = Str(sList)

\* the calls of mongoose.connect that have not settled: the one of the
\* start-up call and the one of the request at its await of
\* ensureDbConnection
ConnectsInFlight ==
    (IF startupConnect THEN 1 ELSE 0) + (IF hp = "awaitDb" THEN 1 ELSE 0)

\* C25: at most one call of mongoose.connect is in flight at any time: a
\* caller of ensureDbConnection that finds isConnected false does not start
\* another connect while an earlier one has not settled.
C25_OneConnectInFlight == ConnectsInFlight <= 1

====
